---- MODULE Spec2Model ----
(***************************************************************************)
(* GPU acquisition through Prefect concurrency limits                      *)
(* (src/flows/demo3/main.py).                                              *)
(*                                                                         *)
(* A flow run executes on a worker whose environment holds WORKER_ID and   *)
(* WORKER_GPU_IDS.  acquire_gpu() is a generator context manager: it       *)
(* probes one concurrency limit per configured GPU id, in order, yields    *)
(* the first id whose slot it got, and releases the slot when the caller's *)
(* block is left.  Two flows use it: one acquires per task, the other once *)
(* for the whole pipeline (and is retried by the orchestrator).            *)
(*                                                                         *)
(* Strings that the code only passes around (worker ids, limiter names,    *)
(* messages) are TLA+ strings; the raw WORKER_GPU_IDS value, which the     *)
(* code parses, is a sequence of one-character strings.                    *)
(***************************************************************************)
EXTENDS Integers, Sequences, FiniteSets, Bags, TLC

(***************************************************************************)
(* Bounds of the exploration.                                              *)
(***************************************************************************)
\* Longest raw WORKER_GPU_IDS value enumerated by the configuration sweep.
MaxCfgLen == 3

\* Characters the configuration sweep builds raw values from.
CfgChars == {"0", "1", ",", "-", "x"}

\* The flow runs in flight at the same time.
Runs == {1, 2}

(***************************************************************************)
(* Text helpers: what str.split(","), str.strip() and int() do.            *)
(***************************************************************************)
Digits == {"0", "1", "2", "3", "4", "5", "6", "7", "8", "9"}

DigitVal(c) ==
    CASE c = "0" -> 0 [] c = "1" -> 1 [] c = "2" -> 2 [] c = "3" -> 3
      [] c = "4" -> 4 [] c = "5" -> 5 [] c = "6" -> 6 [] c = "7" -> 7
      [] c = "8" -> 8 [] c = "9" -> 9

\* The characters of s glued into one string.
RECURSIVE Join(_)
Join(s) == IF s = <<>> THEN "" ELSE Head(s) \o Join(Tail(s))

\* Position of the first comma of s, 0 when there is none.
FirstComma(s) ==
    IF \E k \in 1..Len(s) : s[k] = ","
    THEN CHOOSE k \in 1..Len(s) : s[k] = "," /\ \A j \in 1..(k - 1) : s[j] # ","
    ELSE 0

\* raw_gpu_ids.split(","): k commas give k + 1 tokens, empty ones included.
RECURSIVE Split(_)
Split(s) ==
    LET k == FirstComma(s)
    IN  IF k = 0 THEN <<s>>
        ELSE <<SubSeq(s, 1, k - 1)>> \o Split(SubSeq(s, k + 1, Len(s)))

\* int() ignores surrounding whitespace.
RECURSIVE Strip(_)
Strip(t) ==
    IF t # <<>> /\ Head(t) = " " THEN Strip(Tail(t))
    ELSE IF t # <<>> /\ t[Len(t)] = " " THEN Strip(SubSeq(t, 1, Len(t) - 1))
    ELSE t

HasSign(t) == t # <<>> /\ Head(t) \in {"+", "-"}

Unsigned(t) == IF HasSign(t) THEN Tail(t) ELSE t

\* Digits with single underscores between them, as int() accepts.
IsDigitRun(b) ==
    /\ b # <<>>
    /\ \A k \in 1..Len(b) : b[k] \in Digits \cup {"_"}
    /\ b[1] # "_"
    /\ b[Len(b)] # "_"
    /\ \A k \in 1..(Len(b) - 1) : ~(b[k] = "_" /\ b[k + 1] = "_")

\* int(token) succeeds.
IsIntLiteral(tok) == IsDigitRun(Unsigned(Strip(tok)))

RECURSIVE DigitRunValue(_, _)
DigitRunValue(b, acc) ==
    IF b = <<>> THEN acc
    ELSE IF Head(b) = "_" THEN DigitRunValue(Tail(b), acc)
    ELSE DigitRunValue(Tail(b), 10 * acc + DigitVal(Head(b)))

\* int(token), for a token int() accepts.
IntOf(tok) ==
    LET t == Strip(tok)
        v == DigitRunValue(Unsigned(t), 0)
    IN  IF HasSign(t) /\ Head(t) = "-" THEN 0 - v ELSE v

(***************************************************************************)
(* Exceptions: a type name and a message.  A message is the sequence of    *)
(* the parts of its f-string: the literal text and each interpolated       *)
(* value, rendered as str() renders it.                                    *)
(***************************************************************************)
Exc(type, msg) == [type |-> type, msg |-> msg]

NoError == Exc("", <<>>)

\* The message has `value` among its interpolated parts.
Names(e, value) == \E k \in 1..Len(e.msg) : e.msg[k] = value

\* str() of a list of integers: "[0, 1]".
RECURSIVE ListItems(_)
ListItems(ids) ==
    IF ids = <<>> THEN ""
    ELSE IF Len(ids) = 1 THEN ToString(Head(ids))
    ELSE ToString(Head(ids)) \o ", " \o ListItems(Tail(ids))

ListStr(ids) == "[" \o ListItems(ids) \o "]"

\* The two exception types the probe loop catches (line 110).
TimeoutErrorType == "AcquireConcurrencySlotTimeoutError"
AcquisitionErrorType == "ConcurrencySlotAcquisitionError"
CaughtTypes == {TimeoutErrorType, AcquisitionErrorType}

(***************************************************************************)
(* The worker environment.  A variable is [set |-> BOOLEAN, val |-> ...].  *)
(***************************************************************************)
Unset(empty) == [set |-> FALSE, val |-> empty]
SetTo(v) == [set |-> TRUE, val |-> v]

\* os.environ.get("WORKER_GPU_IDS", "")
RawGpuIds(e) == IF e.WORKER_GPU_IDS.set THEN e.WORKER_GPU_IDS.val ELSE <<>>

\* Faulty variant: the ids are returned sorted instead of in declared order.
get_worker_gpu_ids_sorted(e) ==
    LET raw_gpu_ids == RawGpuIds(e)
        tokens == Split(raw_gpu_ids)
    IN  IF raw_gpu_ids = <<>> \/ \E k \in 1..Len(tokens) : ~IsIntLiteral(tokens[k])
        THEN [ok |-> FALSE, ids |-> <<>>, err |-> Exc("ValueError", <<>>)]
        ELSE [ok |-> TRUE,
              ids |-> SortSeq([k \in 1..Len(tokens) |-> IntOf(tokens[k])],
                              LAMBDA a, b : a < b),
              err |-> NoError]

\* Faulty variant: tokens int() rejects are skipped instead of raising.
get_worker_gpu_ids_lenient(e) ==
    LET raw_gpu_ids == RawGpuIds(e)
        tokens == SelectSeq(Split(raw_gpu_ids), LAMBDA t : IsIntLiteral(t))
    IN  IF raw_gpu_ids = <<>>
        THEN [ok |-> FALSE, ids |-> <<>>,
              err |-> Exc("ValueError",
                          <<"WORKER_GPU_IDS environment variable is not set.">>)]
        ELSE [ok |-> TRUE, ids |-> [k \in 1..Len(tokens) |-> IntOf(tokens[k])],
              err |-> NoError]

\* get_worker_gpu_ids(): [ok |-> TRUE, ids |-> ...] or [ok |-> FALSE, err |-> ...].
get_worker_gpu_ids(e) ==
    LET raw_gpu_ids == RawGpuIds(e)
        tokens == Split(raw_gpu_ids)
    IN  IF raw_gpu_ids = <<>>
        THEN [ok |-> FALSE, ids |-> <<>>,
              err |-> Exc("ValueError",
                          <<"WORKER_GPU_IDS environment variable is not set.">>)]
        ELSE IF \E k \in 1..Len(tokens) : ~IsIntLiteral(tokens[k])
        THEN LET bad == CHOOSE k \in 1..Len(tokens) :
                            /\ ~IsIntLiteral(tokens[k])
                            /\ \A j \in 1..(k - 1) : IsIntLiteral(tokens[j])
             IN  [ok |-> FALSE, ids |-> <<>>,
                  err |-> Exc("ValueError",
                              <<"invalid literal for int() with base 10: ",
                                Join(tokens[bad])>>)]
        ELSE [ok |-> TRUE, ids |-> [k \in 1..Len(tokens) |-> IntOf(tokens[k])],
              err |-> NoError]

\* f"gpu-{worker_id}-{gpu_id}"
LimiterName(worker_id, gpu_id) == "gpu-" \o worker_id \o "-" \o ToString(gpu_id)

(***************************************************************************)
(* Program constants.                                                      *)
(***************************************************************************)
\* Every limit gpu-{worker}-{id} is created with a limit of 1 (docstring).
SlotLimit == 1

\* occupy=1 in the concurrency(...) call.
Occupy == 1

\* @flow(retries=3, ...) on single_acquisition_prediction_flow.
SingleFlowRetries == 3

\* @flow() on task_acquisition_prediction_flow: Prefect's default, no retry.
TaskFlowRetries == 0

\* The pipeline has three units: pre_processing, predict, post_processing.
UnitNames == <<"pre_processing", "predict", "post_processing">>

\* random.choice([...]) in predict.
Labels == {"Cat", "Dog", "Sheep", "Duck", "Owl", "Squirrel"}

\* A Python None, and a name that is not bound yet.
None == "None"
NoLease == ""

Retries(f) == IF f = "single" THEN SingleFlowRetries ELSE TaskFlowRetries

(***************************************************************************)
(* State.                                                                  *)
(***************************************************************************)
VARIABLES
    env,               \* env[r]: environment of the worker executing run r
    flow,              \* flow[r]: "task" or "single"
    pc,                \* pc[r]: where run r is
    attempt,           \* attempt[r]: invocations of the flow body so far
    stage,             \* stage[r]: units completed in this invocation
    worker_id,         \* acquire_gpu local
    existing_gpu_ids,  \* acquire_gpu local
    idx,               \* position of the for loop over the limit names
    gpu_id,            \* the id yielded to the with block
    lease,             \* limit name held by the generator's concurrency() block
    thrown,            \* exception thrown into the generator at its yield
    orphans,           \* limit names held by generators left suspended
    active_slots,      \* the server's bag of occupied slots, by limit name
    probes,            \* log of the probes of the current acquire_gpu call
    acquired,          \* slots acquired in this invocation of the flow body
    released,          \* slots released in this invocation of the flow body
    units,             \* units executed in this invocation, with their gpu id
    prediction,        \* the flow's local `prediction`
    returned,          \* value returned by the flow function
    error              \* exception raised out of the flow body

config == <<env, flow>>
frame == <<worker_id, existing_gpu_ids, idx, gpu_id, lease, thrown>>
ghost == <<probes, acquired, released, units>>
vars == <<env, flow, pc, attempt, stage, worker_id, existing_gpu_ids, idx, gpu_id,
          lease, thrown, orphans, active_slots, probes, acquired, released, units,
          prediction, returned, error>>

Env(w, g) == [WORKER_ID |-> w, WORKER_GPU_IDS |-> g]

\* Worker environments of the concurrent exploration: the worker of the
\* module docstring, with two GPUs, and a worker with a single GPU.
WorkerEnvs ==
    { Env(SetTo("worker-1"), SetTo(<<"0", ",", "1">>)),
      Env(SetTo("worker-2"), SetTo(<<"0">>)) }

\* A worker whose GPUs are declared out of numeric order.
UnorderedEnv == Env(SetTo("worker-3"), SetTo(<<"2", ",", "0", ",", "1">>))

\* Raw values of length at most n over CfgChars.
RECURSIVE RawValues(_)
RawValues(n) ==
    IF n = 0 THEN {<<>>}
    ELSE LET shorter == RawValues(n - 1)
         IN  shorter \cup {Append(s, c) : s \in {t \in shorter : Len(t) = n - 1},
                                          c \in CfgChars}

\* Worker environments of the configuration sweep: every raw value up to
\* MaxCfgLen, and the three correctly configured workers above.
SweepEnvs ==
    { Env(w, g) :
        w \in {Unset(""), SetTo(""), SetTo("worker-1")},
        g \in {Unset(<<>>)} \cup {SetTo(s) : s \in RawValues(MaxCfgLen)} }
    \cup WorkerEnvs \cup {UnorderedEnv}

InitRun(first) ==
    /\ pc = [r \in Runs |-> IF r \in first THEN "scheduled" ELSE "idle"]
    /\ attempt = [r \in Runs |-> 0]
    /\ stage = [r \in Runs |-> 0]
    /\ worker_id = [r \in Runs |-> ""]
    /\ existing_gpu_ids = [r \in Runs |-> <<>>]
    /\ idx = [r \in Runs |-> 0]
    /\ gpu_id = [r \in Runs |-> None]
    /\ lease = [r \in Runs |-> NoLease]
    /\ thrown = [r \in Runs |-> NoError]
    /\ orphans = [r \in Runs |-> {}]
    /\ active_slots = EmptyBag
    /\ probes = [r \in Runs |-> <<>>]
    /\ acquired = [r \in Runs |-> 0]
    /\ released = [r \in Runs |-> 0]
    /\ units = [r \in Runs |-> <<>>]
    /\ prediction = [r \in Runs |-> None]
    /\ returned = [r \in Runs |-> None]
    /\ error = [r \in Runs |-> NoError]

\* Every run is submitted, each on a correctly configured worker.
Init ==
    /\ env \in [Runs -> WorkerEnvs]
    /\ flow \in [Runs -> {"task", "single"}]
    /\ InitRun(Runs)

\* One run is submitted, on a worker with an arbitrary environment.
InitCfg ==
    /\ env \in {[r \in Runs |-> e] : e \in SweepEnvs}
    /\ flow \in {[r \in Runs |-> f] : f \in {"task", "single"}}
    /\ InitRun({1})

(***************************************************************************)
(* The limiter service.                                                    *)
(***************************************************************************)
Occupied(name) == CopiesIn(name, active_slots)

\* Faulty variant: a server that grants a slot whatever the limit's occupancy.
SlotFreeUnchecked(name) == TRUE

\* The server grants `occupy` slots of a limit only while they fit.
SlotFree(name) == Occupied(name) + Occupy <= SlotLimit

Take(name) == active_slots (+) SetToBag({name})

Give(name) == active_slots (-) SetToBag({name})

(***************************************************************************)
(* The orchestrator: invokes the flow body, retries it when it raises.     *)
(***************************************************************************)
FlowStart(r) ==
    /\ pc[r] = "scheduled"
    /\ pc' = [pc EXCEPT ![r] = "enter"]
    /\ attempt' = [attempt EXCEPT ![r] = @ + 1]
    /\ UNCHANGED <<config, stage, frame, orphans, active_slots, ghost, prediction,
                   returned, error>>

\* The frames of the flow body and of acquire_gpu are gone once the body is left.
DropFrames(r) ==
    /\ stage' = [stage EXCEPT ![r] = 0]
    /\ worker_id' = [worker_id EXCEPT ![r] = ""]
    /\ existing_gpu_ids' = [existing_gpu_ids EXCEPT ![r] = <<>>]
    /\ idx' = [idx EXCEPT ![r] = 0]
    /\ gpu_id' = [gpu_id EXCEPT ![r] = None]
    /\ thrown' = [thrown EXCEPT ![r] = NoError]
    /\ prediction' = [prediction EXCEPT ![r] = None]
    /\ probes' = [probes EXCEPT ![r] = <<>>]

\* Faulty variant: the retry policy of the whole-pipeline flow on every flow.
ShouldRetryAnyFlow(r) == attempt[r] <= SingleFlowRetries

\* Any exception out of the flow body fails the attempt; the orchestrator
\* invokes the body again while the flow has retries left.
ShouldRetry(r) == attempt[r] <= Retries(flow[r])

FlowRetry(r) ==
    /\ pc[r] = "raised"
    /\ ShouldRetry(r)
    /\ pc' = [pc EXCEPT ![r] = "scheduled"]
    /\ DropFrames(r)
    /\ acquired' = [acquired EXCEPT ![r] = 0]
    /\ released' = [released EXCEPT ![r] = 0]
    /\ units' = [units EXCEPT ![r] = <<>>]
    /\ error' = [error EXCEPT ![r] = NoError]
    /\ UNCHANGED <<config, attempt, lease, orphans, active_slots, returned>>

FlowFail(r) ==
    /\ pc[r] = "raised"
    /\ ~ShouldRetry(r)
    /\ pc' = [pc EXCEPT ![r] = "failed"]
    /\ DropFrames(r)
    /\ UNCHANGED <<config, attempt, lease, orphans, active_slots, acquired, released,
                   units, returned, error>>

\* An exception leaves the flow body.
Raise(r, e) ==
    /\ pc' = [pc EXCEPT ![r] = "raised"]
    /\ error' = [error EXCEPT ![r] = e]

(***************************************************************************)
(* acquire_gpu(), lines 85-101: read the environment, build the names.     *)
(***************************************************************************)
AcquireEnterFail(r) ==
    /\ pc[r] = "enter"
    /\ \/ /\ ~env[r].WORKER_ID.set
          /\ Raise(r, Exc("ValueError",
                 <<"WORKER_ID environment variable is not set - cannot acquire GPU">>))
       \/ /\ env[r].WORKER_ID.set
          /\ ~get_worker_gpu_ids(env[r]).ok
          /\ Raise(r, get_worker_gpu_ids(env[r]).err)
    /\ probes' = [probes EXCEPT ![r] = <<>>]
    /\ UNCHANGED <<config, attempt, stage, frame, orphans, active_slots,
                   acquired, released, units, prediction, returned>>

AcquireEnter(r) ==
    /\ pc[r] = "enter"
    /\ env[r].WORKER_ID.set
    /\ get_worker_gpu_ids(env[r]).ok
    /\ worker_id' = [worker_id EXCEPT ![r] = env[r].WORKER_ID.val]
    /\ existing_gpu_ids' = [existing_gpu_ids EXCEPT ![r] = get_worker_gpu_ids(env[r]).ids]
    /\ idx' = [idx EXCEPT ![r] = 1]
    /\ thrown' = [thrown EXCEPT ![r] = NoError]
    /\ probes' = [probes EXCEPT ![r] = <<>>]
    /\ pc' = [pc EXCEPT ![r] = "probe"]
    /\ UNCHANGED <<config, attempt, stage, gpu_id, lease, orphans, active_slots,
                   acquired, released, units, prediction, returned, error>>

(***************************************************************************)
(* acquire_gpu(), lines 103-113: the probe loop.                           *)
(***************************************************************************)
Candidate(r) == existing_gpu_ids[r][idx[r]]

CandidateName(r) == LimiterName(worker_id[r], Candidate(r))

Probing(r) == pc[r] = "probe" /\ idx[r] <= Len(existing_gpu_ids[r])

\* Faulty variant: a contended candidate is probed again instead of skipped.
ProbeContentionRetry(r, type) ==
    /\ pc[r] = "probe" /\ idx[r] <= Len(existing_gpu_ids[r])
    /\ type \in CaughtTypes
    /\ probes' = [probes EXCEPT ![r] =
                     Append(@, [gpu_id |-> existing_gpu_ids[r][idx[r]],
                                name |-> LimiterName(worker_id[r],
                                                     existing_gpu_ids[r][idx[r]]),
                                outcome |-> type])]
    /\ UNCHANGED <<config, pc, attempt, stage, frame, orphans, active_slots,
                   acquired, released, units, prediction, returned, error>>

Probed(r, outcome) ==
    Append(probes[r], [gpu_id |-> Candidate(r), name |-> CandidateName(r),
                       outcome |-> outcome])

\* The exception types of line 110 send the loop to the next candidate.
Caught(type) == type \in CaughtTypes

\* concurrency() got the slot and nothing was thrown in before: yield gpu_id.
ProbeAcquire(r) ==
    /\ Probing(r)
    /\ thrown[r] = NoError
    /\ SlotFree(CandidateName(r))
    /\ active_slots' = Take(CandidateName(r))
    /\ lease' = [lease EXCEPT ![r] = CandidateName(r)]
    /\ gpu_id' = [gpu_id EXCEPT ![r] = Candidate(r)]
    /\ acquired' = [acquired EXCEPT ![r] = @ + 1]
    /\ probes' = [probes EXCEPT ![r] = Probed(r, "acquired")]
    /\ pc' = [pc EXCEPT ![r] = "block"]
    /\ UNCHANGED <<config, attempt, stage, worker_id, existing_gpu_ids, idx, thrown,
                   orphans, released, units, prediction, returned, error>>

\* concurrency() got the slot after an exception was thrown in: the generator
\* yields a second time, contextlib raises, and the generator stays suspended
\* inside its concurrency() block until it is finalized.
ProbeAcquireAfterThrow(r) ==
    /\ Probing(r)
    /\ thrown[r] # NoError
    /\ SlotFree(CandidateName(r))
    /\ active_slots' = Take(CandidateName(r))
    /\ orphans' = [orphans EXCEPT ![r] = @ \cup {CandidateName(r)}]
    /\ acquired' = [acquired EXCEPT ![r] = @ + 1]
    /\ probes' = [probes EXCEPT ![r] = Probed(r, "acquired")]
    /\ Raise(r, Exc("RuntimeError", <<"generator didn't stop after throw()">>))
    /\ UNCHANGED <<config, attempt, stage, frame, released, units, prediction,
                   returned>>

\* concurrency() raised one of the caught types: log "busy", next candidate.
ProbeContention(r, type) ==
    /\ Probing(r)
    /\ Caught(type)
    /\ probes' = [probes EXCEPT ![r] = Probed(r, type)]
    /\ idx' = [idx EXCEPT ![r] = @ + 1]
    /\ UNCHANGED <<config, pc, attempt, stage, worker_id, existing_gpu_ids, gpu_id,
                   lease, thrown, orphans, active_slots, acquired, released, units,
                   prediction, returned, error>>

\* The slot is occupied: the probe waits out its timeout.
ProbeBusy(r) ==
    /\ Probing(r)
    /\ ~SlotFree(CandidateName(r))
    /\ ProbeContention(r, TimeoutErrorType)

\* Faulty variant: the except clause swallows every exception of a probe.
ProbeFailureSwallowed(r, type) ==
    /\ Probing(r)
    /\ probes' = [probes EXCEPT ![r] = Probed(r, type)]
    /\ idx' = [idx EXCEPT ![r] = @ + 1]
    /\ UNCHANGED <<config, pc, attempt, stage, worker_id, existing_gpu_ids, gpu_id,
                   lease, thrown, orphans, active_slots, acquired, released, units,
                   prediction, returned, error>>

\* concurrency() raised anything else: it leaves acquire_gpu as it is.
ProbeFailure(r, type) ==
    /\ Probing(r)
    /\ ~Caught(type)
    /\ probes' = [probes EXCEPT ![r] = Probed(r, type)]
    /\ Raise(r, Exc(type, <<"limiter service failure">>))
    /\ UNCHANGED <<config, attempt, stage, frame, orphans, active_slots,
                   acquired, released, units, prediction, returned>>

\* Faulty variant: the error does not say which worker ran out of GPUs.
NoAvailableAnonymous(r) == Exc("RuntimeError", <<"No available GPUs">>)

\* Line 113: the loop ran out of candidates.
NoAvailable(r) == Exc("RuntimeError", <<"No available GPUs on worker ", worker_id[r]>>)

Exhausted(r) ==
    /\ pc[r] = "probe"
    /\ idx[r] > Len(existing_gpu_ids[r])
    /\ Raise(r, NoAvailable(r))
    /\ UNCHANGED <<config, attempt, stage, frame, orphans, active_slots, ghost,
                   prediction, returned>>

\* A generator left suspended is closed when the interpreter finalizes it;
\* closing it leaves its concurrency() block, which gives the slot back.
GenFinalize(r, name) ==
    /\ name \in orphans[r]
    /\ orphans' = [orphans EXCEPT ![r] = @ \ {name}]
    /\ active_slots' = Give(name)
    /\ UNCHANGED <<config, pc, attempt, stage, frame, ghost, prediction, returned,
                   error>>

(***************************************************************************)
(* The with blocks of the two flows, lines 152-172.                        *)
(***************************************************************************)
\* Faulty variant: every flow keeps one with block around all three units.
LastOfBlockWhole(r) == stage[r] + 1 = Len(UnitNames)

\* The unit at hand is the last of its with block: each block of the per-task
\* flow holds one unit, the block of the whole-pipeline flow all three.
LastOfBlock(r) == flow[r] = "single" => stage[r] + 1 = Len(UnitNames)

\* Faulty variant: the flow goes on with its units after acquire_gpu raised.
InBlockOrRaised(r, unit) ==
    /\ pc[r] \in {"block", "raised"}
    /\ stage[r] < Len(UnitNames)
    /\ UnitNames[stage[r] + 1] = unit

InBlock(r, unit) == pc[r] = "block" /\ UnitNames[stage[r] + 1] = unit

UnitDone(r) ==
    /\ units' = [units EXCEPT ![r] = Append(@, <<UnitNames[stage[r] + 1], gpu_id[r]>>)]
    /\ stage' = [stage EXCEPT ![r] = @ + 1]
    /\ pc' = [pc EXCEPT ![r] = IF LastOfBlock(r) THEN "exit" ELSE "block"]

pre_processing(r) ==
    /\ InBlock(r, "pre_processing")
    /\ UnitDone(r)
    /\ UNCHANGED <<config, attempt, frame, orphans, active_slots, probes, acquired,
                   released, prediction, returned, error>>

predict(r, label) ==
    /\ InBlock(r, "predict")
    /\ UnitDone(r)
    /\ prediction' = [prediction EXCEPT ![r] = label]
    /\ UNCHANGED <<config, attempt, frame, orphans, active_slots, probes, acquired,
                   released, returned, error>>

post_processing(r) ==
    /\ InBlock(r, "post_processing")
    /\ UnitDone(r)
    /\ UNCHANGED <<config, attempt, frame, orphans, active_slots, probes, acquired,
                   released, prediction, returned, error>>

\* Where the flow goes once its with block is left without an exception.
AfterBlock(r) == IF stage[r] < Len(UnitNames) THEN "enter" ELSE "completed"

\* The block ended: the generator resumes after its yield, logs, returns, and
\* leaving concurrency() gives the slot back (lines 108-109).  The per-task
\* flow goes on to its next with statement.
ExitBlock(r) ==
    /\ pc[r] = "exit"
    /\ AfterBlock(r) = "enter"
    /\ active_slots' = Give(lease[r])
    /\ lease' = [lease EXCEPT ![r] = NoLease]
    /\ released' = [released EXCEPT ![r] = @ + 1]
    /\ pc' = [pc EXCEPT ![r] = "enter"]
    /\ UNCHANGED <<config, attempt, stage, worker_id, existing_gpu_ids, idx, gpu_id,
                   thrown, orphans, probes, acquired, units, prediction, returned,
                   error>>

\* The last block ended: as above, and the flow function falls off its end.
ExitLastBlock(r) ==
    /\ pc[r] = "exit"
    /\ AfterBlock(r) = "completed"
    /\ active_slots' = Give(lease[r])
    /\ lease' = [lease EXCEPT ![r] = NoLease]
    /\ released' = [released EXCEPT ![r] = @ + 1]
    /\ pc' = [pc EXCEPT ![r] = "completed"]
    /\ returned' = [returned EXCEPT ![r] = None]
    /\ DropFrames(r)
    /\ UNCHANGED <<config, attempt, orphans, acquired, units, error>>

\* Exception types a unit is explored with: the two the probe loop catches,
\* and one it does not.
BlockErrorTypes == CaughtTypes \cup {"Exception"}

\* The block raised: the exception is thrown into the generator at its yield,
\* leaving concurrency() gives the slot back, and the except clause of line
\* 110, which encloses the yield, decides where the exception goes.
BlockRaise(r, type) ==
    /\ pc[r] = "block"
    /\ active_slots' = Give(lease[r])
    /\ lease' = [lease EXCEPT ![r] = NoLease]
    /\ released' = [released EXCEPT ![r] = @ + 1]
    /\ IF Caught(type)
       THEN /\ thrown' = [thrown EXCEPT ![r] = Exc(type, <<"unit failed">>)]
            /\ idx' = [idx EXCEPT ![r] = @ + 1]
            /\ pc' = [pc EXCEPT ![r] = "probe"]
            /\ UNCHANGED error
       ELSE /\ Raise(r, Exc(type, <<"unit failed">>))
            /\ UNCHANGED <<thrown, idx>>
    /\ UNCHANGED <<config, attempt, stage, worker_id, existing_gpu_ids, gpu_id,
                   orphans, probes, acquired, units, prediction, returned>>

(***************************************************************************)
(* Specifications.                                                         *)
(***************************************************************************)
\* Concurrent runs on correctly configured workers, against a limiter service
\* that answers every probe: it grants a free slot and lets the probe of an
\* occupied one time out.  Units fail with ordinary exceptions only.
Next ==
    \E r \in Runs :
        \/ FlowStart(r)
        \/ FlowRetry(r)
        \/ FlowFail(r)
        \/ AcquireEnter(r)
        \/ ProbeAcquire(r)
        \/ ProbeBusy(r)
        \/ Exhausted(r)
        \/ pre_processing(r)
        \/ \E label \in Labels : predict(r, label)
        \/ post_processing(r)
        \/ ExitBlock(r)
        \/ ExitLastBlock(r)
        \/ BlockRaise(r, "Exception")

\* One run, on a worker with an arbitrary environment, against a limiter
\* service that may also be slow or failing: any probe may time out, be
\* rejected, or fail in some other way, and a unit may raise any exception.
NextCfg ==
    \E r \in {1} :
        \/ FlowStart(r)
        \/ FlowRetry(r)
        \/ FlowFail(r)
        \/ AcquireEnterFail(r)
        \/ AcquireEnter(r)
        \/ ProbeAcquire(r)
        \/ ProbeAcquireAfterThrow(r)
        \/ \E type \in CaughtTypes : ProbeContention(r, type)
        \/ ProbeFailure(r, "ConnectError")
        \/ Exhausted(r)
        \/ \E name \in orphans[r] : GenFinalize(r, name)
        \/ pre_processing(r)
        \/ \E label \in Labels : predict(r, label)
        \/ post_processing(r)
        \/ ExitBlock(r)
        \/ ExitLastBlock(r)
        \/ \E type \in BlockErrorTypes : BlockRaise(r, type)

Spec == Init /\ [][Next]_vars

SpecCfg == InitCfg /\ [][NextCfg]_vars

\* The single-run specification under fair scheduling: a step that can be
\* taken is eventually taken (the interpreter runs the flow, probes time out,
\* units terminate, the orchestrator acts on a finished attempt, a suspended
\* generator is eventually finalized).
SpecCfgFair == SpecCfg /\ WF_vars(NextCfg)

(***************************************************************************)
(* Properties.                                                             *)
(***************************************************************************)
\* Run r is inside the block protected by its lease.
InProtected(r) == pc[r] \in {"block", "exit"}

\* C1: mutual exclusion.  With every limit at 1, no two concurrent runs, of
\* either flow, on the same or on different workers, are inside the protected
\* block of the same limiter name, and no limit holds more than one slot.
C1_MutualExclusion ==
    /\ \A r1, r2 \in Runs :
         (r1 # r2 /\ InProtected(r1) /\ InProtected(r2)) => lease[r1] # lease[r2]
    /\ \A r \in Runs : InProtected(r) => Occupied(lease[r]) = 1
    /\ \A name \in BagToSet(active_slots) : Occupied(name) <= SlotLimit

\* Two runs of the same worker are in their blocks at once, the second after
\* it found the first one's slot occupied.
C1_Witness ==
    \E r1, r2 \in Runs :
        /\ r1 # r2
        /\ InProtected(r1) /\ InProtected(r2)
        /\ Len(probes[r2]) = 2
        /\ probes[r2][1].name = lease[r1]
        /\ probes[r2][1].outcome = TimeoutErrorType

\* Run r is not inside any acquire_gpu() scope.
OutOfScope(r) == pc[r] \in {"idle", "scheduled", "enter", "raised", "failed", "completed"}

\* C2: exactly-once release.  Every slot acquire_gpu acquired is released
\* once before control leaves the acquire_gpu scope, whether the block
\* completed or raised: no slot is released twice and the run holds no slot
\* once it is out of the scope.
C2_ExactlyOnceRelease ==
    \A r \in Runs :
        /\ released[r] <= acquired[r]
        /\ OutOfScope(r) => (lease[r] = NoLease /\ orphans[r] = {})

\* The ids of WORKER_GPU_IDS in the order they are written.
Declared(r) ==
    LET tokens == Split(RawGpuIds(env[r]))
    IN  [k \in 1..Len(tokens) |-> IntOf(tokens[k])]

\* No probe of the current acquire_gpu call got a slot.
NeverYielded(r) == \A j \in 1..Len(probes[r]) : probes[r][j].outcome # "acquired"

\* C3: first fit in declared order.  The probes of an acquire_gpu call go
\* through the ids in the order WORKER_GPU_IDS lists them, unsorted and with
\* duplicates kept, and the id yielded to the block is that of the first probe
\* that got a slot: no candidate after it has been probed.
C3_FirstFitInOrder ==
    \A r \in Runs :
        /\ Len(probes[r]) <= Len(Split(RawGpuIds(env[r])))
        /\ \A j \in 1..Len(probes[r]) :
             /\ probes[r][j].gpu_id = Declared(r)[j]
             /\ probes[r][j].name = LimiterName(env[r].WORKER_ID.val, Declared(r)[j])
        /\ InProtected(r) =>
             LET k == Len(probes[r])
             IN  /\ k >= 1
                 /\ probes[r][k].outcome = "acquired"
                 /\ gpu_id[r] = probes[r][k].gpu_id
                 /\ \A j \in 1..(k - 1) : probes[r][j].outcome \in CaughtTypes

\* With "2,0,1" declared, slot 2 contended and slot 0 free: 2 then 0 were
\* probed, 0 is yielded and 1 is not probed.
C3_Witness ==
    \E r \in Runs :
        /\ env[r] = UnorderedEnv
        /\ pc[r] = "block"
        /\ gpu_id[r] = 0
        /\ Len(probes[r]) = 2
        /\ probes[r][1].gpu_id = 2

\* acquire_gpu raised out of its loop, all candidates used up.
ExhaustedState(r) ==
    /\ pc[r] = "raised"
    /\ existing_gpu_ids[r] # <<>>
    /\ idx[r] > Len(existing_gpu_ids[r])

\* C4: bounded exhaustion without retry.  The loop probes each candidate once
\* and never goes back; when all N candidates were contended, acquire_gpu has
\* made N probes, raises its "No available GPUs" error without having yielded,
\* and the call leaves no slot occupied.
C4_BoundedExhaustion ==
    \A r \in Runs :
        /\ pc[r] = "probe" => Len(probes[r]) = idx[r] - 1
        /\ (ExhaustedState(r) /\ NeverYielded(r)) =>
             /\ Len(probes[r]) = Len(Declared(r))
             /\ error[r] = NoAvailable(r)
             /\ acquired[r] = released[r]
             /\ lease[r] = NoLease
             /\ \A j \in 1..Len(probes[r]) :
                  /\ probes[r][j].outcome \in CaughtTypes
                  /\ Occupied(probes[r][j].name)
                       = (IF probes[r][j].name \in orphans[r] THEN 1 ELSE 0)

\* Three candidates, all contended: three probes, then the error.
C4_Witness ==
    \E r \in Runs :
        /\ ExhaustedState(r)
        /\ NeverYielded(r)
        /\ Len(probes[r]) = 3
        /\ error[r] = NoAvailable(r)

AbortedAt(r, j) ==
    /\ j = Len(probes[r])
    /\ pc[r] = "raised"
    /\ error[r].type = probes[r][j].outcome

\* C6 as claimed: only a probe that timed out on its slot lets the loop go on;
\* a probe that failed in any other way, a rejected acquisition request
\* included, ends acquire_gpu at once and no later candidate is probed.
C6_OnlyContentionFallsThrough ==
    \A r \in Runs : \A j \in 1..Len(probes[r]) :
        probes[r][j].outcome \notin {"acquired", TimeoutErrorType} => AbortedAt(r, j)

\* C6, amended: a probe that timed out and a probe whose acquisition request
\* was rejected (ConcurrencySlotAcquisitionError) both let the loop go on to
\* the next candidate; a probe that failed with any other exception ends
\* acquire_gpu at once with that exception and no later candidate is probed.
C6_CaughtTypesFallThrough ==
    \A r \in Runs : \A j \in 1..Len(probes[r]) :
        /\ probes[r][j].outcome \in CaughtTypes => idx[r] > j
        /\ probes[r][j].outcome \notin CaughtTypes \cup {"acquired"} => AbortedAt(r, j)

\* A rejected request on the first candidate, then a connection failure on
\* the second, which ends the call.
C6_Witness ==
    \E r \in Runs :
        /\ pc[r] = "raised"
        /\ Len(probes[r]) = 2
        /\ Len(existing_gpu_ids[r]) = 3
        /\ probes[r][1].outcome = AcquisitionErrorType
        /\ probes[r][2].outcome = "ConnectError"
        /\ error[r].type = "ConnectError"

\* WORKER_GPU_IDS is missing, empty, or has a token int() rejects.
BadGpuConfig(e) ==
    \/ ~e.WORKER_GPU_IDS.set
    \/ e.WORKER_GPU_IDS.val = <<>>
    \/ \E k \in 1..Len(Split(e.WORKER_GPU_IDS.val)) :
           ~IsIntLiteral(Split(e.WORKER_GPU_IDS.val)[k])

\* Run r has not touched the limiter service and is not about to.
NoLimiterInteraction(r) ==
    /\ pc[r] \in {"idle", "scheduled", "enter", "raised", "failed"}
    /\ probes[r] = <<>>
    /\ acquired[r] = 0
    /\ released[r] = 0
    /\ lease[r] = NoLease
    /\ orphans[r] = {}

\* C7: with WORKER_GPU_IDS missing, empty or holding a non-integer token,
\* acquire_gpu fails with a ValueError and the run never issues a probe: no
\* slot is acquired or released at any point.
C7_BadGpuIdsFailBeforeProbe ==
    \A r \in Runs :
        BadGpuConfig(env[r]) =>
            /\ NoLimiterInteraction(r)
            /\ active_slots = EmptyBag
            /\ pc[r] \in {"raised", "failed"} => error[r].type = "ValueError"

\* "0,x" on worker-1: the run failed on the token x.
C7_Witness ==
    \E r \in Runs :
        /\ env[r] = Env(SetTo("worker-1"), SetTo(<<"0", ",", "x">>))
        /\ pc[r] = "failed"
        /\ error[r] = Exc("ValueError", <<"invalid literal for int() with base 10: ", "x">>)

\* C8 as claimed: with WORKER_ID missing or empty, acquire_gpu fails with a
\* ValueError before any probe, and no limiter name is built from an empty
\* worker identity.
C8_EmptyWorkerIdFailsBeforeProbe ==
    \A r \in Runs :
        (~env[r].WORKER_ID.set \/ env[r].WORKER_ID.val = "") =>
            /\ NoLimiterInteraction(r)
            /\ pc[r] \in {"raised", "failed"} => error[r].type = "ValueError"

\* C9: in a completed invocation the whole-pipeline flow has made one
\* acquisition and one release, the slot held from before pre_processing until
\* after post_processing and all three units run with the id it yielded; the
\* per-task flow has made three acquire/release cycles, one around each unit.
C9_AcquisitionsPerFlow ==
    \A r \in Runs :
        /\ (flow[r] = "single" /\ InProtected(r)) =>
             /\ acquired[r] = 1 /\ released[r] = 0
             /\ \A k \in 1..Len(units[r]) : units[r][k] = <<UnitNames[k], gpu_id[r]>>
        /\ (flow[r] = "single" /\ pc[r] = "completed") =>
             /\ acquired[r] = 1 /\ released[r] = 1
             /\ Len(units[r]) = Len(UnitNames)
             /\ \A k \in 1..Len(units[r]) : units[r][k] = <<UnitNames[k], units[r][1][2]>>
        /\ (flow[r] = "task" /\ InProtected(r)) =>
             /\ Len(units[r]) = stage[r]
             /\ acquired[r] = (IF pc[r] = "block" THEN stage[r] + 1 ELSE stage[r])
             /\ released[r] = acquired[r] - 1
        /\ (flow[r] = "task" /\ pc[r] = "completed") =>
             /\ acquired[r] = Len(UnitNames) /\ released[r] = Len(UnitNames)
             /\ Len(units[r]) = Len(UnitNames)
             /\ \A k \in 1..Len(units[r]) : units[r][k][1] = UnitNames[k]

\* A completed per-task run whose units ran on different GPUs.
C9_Witness ==
    \E r \in Runs :
        /\ flow[r] = "task"
        /\ pc[r] = "completed"
        /\ units[r][1][2] # units[r][2][2]

\* C10 as claimed: a run of the whole-pipeline flow that fails with a
\* configuration error is not invoked again: its body runs exactly once.
C10_ConfigErrorNotRetried ==
    \A r \in Runs :
        (flow[r] = "single" /\ pc[r] \in {"raised", "failed"}
            /\ error[r].type = "ValueError") => attempt[r] = 1

\* The flow body raised the "No available GPUs" error of line 113.
Unavailable(r) ==
    /\ error[r].type = "RuntimeError"
    /\ error[r].msg # <<>>
    /\ error[r].msg[1] = "No available GPUs on worker "

\* The orchestrator decides on the exception of run r in this step.
Decides(r) == pc[r] = "raised" /\ pc'[r] # "raised"

\* C11: bounded orchestrator retry.  The body of the whole-pipeline flow is
\* invoked at most 4 times, that of the per-task flow once.  When acquire_gpu
\* raised "No available GPUs", the orchestrator invokes the whole-pipeline
\* flow again while fewer than 4 attempts were made and fails the run after
\* the fourth; the per-task flow is failed at once.  Each attempt starts a
\* fresh pass over the candidates, and a probe that finds its slot free gets
\* the slot within the same attempt, so the run goes on into its block.
C11_BoundedRetry ==
    /\ [](\A r \in Runs :
            /\ flow[r] = "single" => attempt[r] <= 4
            /\ flow[r] = "task" => attempt[r] <= 1
            /\ (pc[r] = "failed" /\ flow[r] = "single") => attempt[r] = 4
            /\ pc[r] \in {"scheduled", "enter"} /\ stage[r] = 0 =>
                  (probes[r] = <<>> /\ idx[r] = 0 /\ acquired[r] = 0))
    /\ [][\A r \in Runs :
            /\ (Decides(r) /\ Unavailable(r) /\ flow[r] = "single") =>
                  pc'[r] = (IF attempt[r] < 4 THEN "scheduled" ELSE "failed")
            /\ (Decides(r) /\ flow[r] = "task") => pc'[r] = "failed"
            /\ attempt'[r] # attempt[r] =>
                  (pc[r] = "scheduled" /\ attempt'[r] = attempt[r] + 1)
            /\ (Probing(r) /\ SlotFree(CandidateName(r)) /\ probes'[r] # probes[r]) =>
                  (pc'[r] = "block" /\ attempt'[r] = attempt[r]
                      /\ gpu_id'[r] = Candidate(r))]_vars

\* A whole-pipeline run that found every candidate busy in its fourth attempt
\* and was failed.
C11_Witness ==
    \E r \in Runs :
        /\ flow[r] = "single"
        /\ pc[r] = "failed"
        /\ attempt[r] = 4
        /\ Unavailable(r)

\* C12 as claimed: a flow that completes returns the label its predict unit
\* produced, whichever GPU ids its units ran on.
C12_ReturnsPredictedLabel ==
    [][\A r \in Runs :
          (pc[r] # "completed" /\ pc'[r] = "completed") =>
              (returned'[r] \in Labels /\ returned'[r] = prediction[r])]_vars

\* The limit names whose slot run r occupies: the one of the generator it is
\* using, and those of generators it left suspended.
Held(r) == (IF lease[r] = NoLease THEN {} ELSE {lease[r]}) \cup orphans[r]

\* C13 as claimed: a run holds at most one slot at any time; it holds none
\* while it is probing, and in the per-task flow none when it enters
\* acquire_gpu for its next unit.
C13_AtMostOneSlot ==
    \A r \in Runs :
        /\ Cardinality(Held(r)) <= 1
        /\ pc[r] \in {"enter", "probe"} => Held(r) = {}

\* Run r is in its block with the slot of the id it was given.
HoldsSlotOfGpuId(r) ==
    /\ pc[r] = "block"
    /\ lease[r] = LimiterName(worker_id[r], gpu_id[r])
    /\ Occupied(lease[r]) = 1

\* C14: a unit executes only while its run holds the slot of the GPU id the
\* unit is given, and the run still holds it when the unit is done.  A unit
\* whose acquisition failed does not execute: after acquire_gpu raised "No
\* available GPUs" the invocation has executed only the units before it, in
\* order, and executes no further unit.
C14_UnitsRunUnderLease ==
    /\ [](\A r \in Runs :
            /\ pc[r] = "block" => HoldsSlotOfGpuId(r)
            /\ (pc[r] \in {"raised", "failed"} /\ Unavailable(r)) =>
                  /\ Len(units[r]) < Len(UnitNames)
                  /\ \A k \in 1..Len(units[r]) : units[r][k][1] = UnitNames[k])
    /\ [][\A r \in Runs :
            units'[r] # units[r] =>
                \/ units'[r] = <<>> /\ pc'[r] = "scheduled"
                \/ /\ HoldsSlotOfGpuId(r)
                   /\ units'[r] = Append(units[r], <<UnitNames[stage[r] + 1], gpu_id[r]>>)
                   /\ lease'[r] = lease[r]
                   /\ active_slots' = active_slots]_vars

\* A per-task run whose pre_processing ran and whose acquisition for predict
\* found every candidate busy: predict and post_processing did not run.
C14_Witness ==
    \E r \in Runs :
        /\ flow[r] = "task"
        /\ pc[r] = "failed"
        /\ Unavailable(r)
        /\ Len(units[r]) = 1
        /\ units[r][1][1] = "pre_processing"

\* One step of the life of run r's acquire_gpu call: from the call to the
\* probe loop or an error; from the loop to the block or an error; from the
\* block to the release of the slot, after which the call is over.
LeaseLifecycle(r) ==
    /\ pc[r] = "enter" => pc'[r] \in {"enter", "probe", "raised"}
    /\ pc[r] = "probe" => pc'[r] \in {"probe", "block", "raised"}
    /\ pc[r] \in {"block", "exit"} =>
          \/ pc'[r] \in {"block", "exit"} /\ lease'[r] = lease[r]
          \/ lease'[r] = NoLease /\ pc'[r] \in {"enter", "completed", "raised"}

\* Run r is over.
Finished(r) == pc[r] \in {"completed", "failed"}

\* C15 as claimed: every acquire_gpu call goes from its request through the
\* probes to either a slot or exhaustion, an acquired slot goes to released,
\* and released and exhausted end the call; under fair scheduling every slot
\* a run holds is eventually released and every submitted run eventually
\* finishes.
C15_LifecycleAndProgress ==
    /\ [][\A r \in Runs : LeaseLifecycle(r)]_vars
    /\ \A r \in Runs : (Held(r) # {}) ~> (Held(r) = {})
    /\ \A r \in Runs : (pc[r] # "idle") ~> Finished(r)

\* C16 as claimed: every id get_worker_gpu_ids returns is a non-negative
\* integer, so no limiter name is built from a negative id: a configuration
\* with a negative token is rejected before any probe.
C16_IdsNonNegative ==
    \A r \in Runs :
        /\ \A k \in 1..Len(existing_gpu_ids[r]) : existing_gpu_ids[r][k] >= 0
        /\ \A j \in 1..Len(probes[r]) : probes[r][j].gpu_id >= 0

\* The block of run r raises in this step.
BlockRaises(r) == pc[r] = "block" /\ pc'[r] \notin {"block", "exit"}

\* C17 as claimed: once acquire_gpu has yielded, an exception of the block,
\* whatever its type, leaves acquire_gpu after the slot is released: the
\* generator swallows no exception, and the call issues no probe and acquires
\* no slot after the one it yielded for.
C17_BlockErrorPropagates ==
    /\ [](\A r \in Runs :
            /\ thrown[r] = NoError
            /\ \A j \in 1..(Len(probes[r]) - 1) : probes[r][j].outcome # "acquired")
    /\ [][\A r \in Runs :
            BlockRaises(r) =>
                /\ pc'[r] = "raised"
                /\ error'[r].type \in BlockErrorTypes
                /\ lease'[r] = NoLease
                /\ active_slots' = Give(lease[r])]_vars

====
